---- MODULE Spec2Model ----
(***************************************************************************)
(* A model of src/soundbot.py: the MusicBot settings record, its command   *)
(* handlers, the APScheduler job store as the bot drives it, and the       *)
(* send_random_music cycle with its scratch directories.                   *)
(*                                                                         *)
(* Scheduling.  Everything runs on one asyncio event loop.  A coroutine    *)
(* gives up the loop only where it awaits real I/O.  get_playlist_videos   *)
(* (113-129) and download_and_convert (131-169) are `async def` bodies     *)
(* without any await, so awaiting them does not suspend: a cycle runs      *)
(* without interruption from line 174 up to the send call at 204/210, and  *)
(* again from the return of the send to the end of the cleanup.  The       *)
(* scheduled job is called with context None (line 458), so its send       *)
(* raises before any I/O and the scheduled cycle never suspends.  The      *)
(* Application is built with its defaults (line 504) and the handlers are  *)
(* registered as plain CommandHandlers (line 523): updates are handled     *)
(* one at a time, a handler is not started while another is in flight.     *)
(***************************************************************************)
EXTENDS Integers, Sequences, FiniteSets, TLC

VARIABLES
    phase,      \* "constructed" after __init__, "polling" once run() has set up
    config,     \* self.config
    persisted,  \* the content of bot_config.json
    scheduler,  \* self.scheduler: [running, jobs]
    handler,    \* the command handler in flight, if it is suspended
    cyc,        \* the manual and the scheduled send_random_music invocation
    fs,         \* the scratch directories made by tempfile.mkdtemp
    nextDir,    \* the number of the next directory mkdtemp makes
    sent,       \* the message the step just taken had the Telegram API accept
    reply,      \* what the step just taken replied to the caller of a command
    log         \* what the step just taken logged about its cycle, and whether
                \* it raised out of send_random_music

vars == <<phase, config, persisted, scheduler, handler, cyc, fs, nextDir, sent, reply, log>>

----------------------------------------------------------------------------
(* Bounds *)

MaxInterval == 1    \* set_interval arguments range over -1..MaxInterval and 10+MaxInterval
MaxPlaylists == 3   \* add_playlist is not offered beyond this many entries
MaxCycles == 1      \* cycles started (each may allocate one scratch directory)
MaxFiles == 1       \* files a download leaves in its scratch directory
MaxEntries == 2     \* entries in a playlist's extracted info

----------------------------------------------------------------------------
(* Program constants *)

USER_ID == 1                     \* the configured recipient; any other id is a stranger
DefaultMaxFileSizeMb == 50
DefaultIntervalMinutes == 1
BytesPerMb == 1048576            \* 1024 * 1024
JobId == "send_music_job"

----------------------------------------------------------------------------
(* Text: command arguments are sequences of characters *)

Digits == <<"0", "1", "2", "3", "4", "5", "6", "7", "8", "9">>

IsDigit(c) == \E i \in 1..10 : Digits[i] = c

DigitVal(c) == (CHOOSE i \in 1..10 : Digits[i] = c) - 1

RECURSIVE DigitsVal(_)
DigitsVal(s) ==
    IF s = <<>> THEN 0
    ELSE 10 * DigitsVal(SubSeq(s, 1, Len(s) - 1)) + DigitVal(s[Len(s)])

ValueError == [ok |-> FALSE, val |-> 0]

\* Python's int(str) on one whitespace-free token: an optional sign and then
\* at least one decimal digit; anything else raises ValueError.
ParseInt(s) ==
    LET signed == s # <<>> /\ s[1] \in {"+", "-"}
        body == IF signed THEN Tail(s) ELSE s
    IN  IF body = <<>> \/ \E i \in 1..Len(body) : ~IsDigit(body[i])
        THEN ValueError
        ELSE [ok |-> TRUE,
              val |-> IF signed /\ s[1] = "-" THEN 0 - DigitsVal(body) ELSE DigitsVal(body)]

RECURSIVE NatStr(_)
NatStr(n) ==
    IF n < 10 THEN <<Digits[n + 1]>>
    ELSE NatStr(n \div 10) \o <<Digits[(n % 10) + 1]>>

\* The f-string rendering of an int.
FormatInt(n) == IF n < 0 THEN <<"-">> \o NatStr(0 - n) ELSE NatStr(n)

\* str.lower() on the tokens offered to set_format.
Lower(f) ==
    IF f \in {"AUDIO", "Audio", "audio"} THEN "audio"
    ELSE IF f \in {"VIDEO", "video"} THEN "video"
    ELSE f

----------------------------------------------------------------------------
(* Inputs *)

YoutubeComUrls == {"https://youtube.com/playlist?list=PL1"}
YoutuBeUrls == {"https://youtu.be/playlist?list=PL2"}
OtherUrls == {"https://youtube.com/watch?v=x"}
Urls == YoutubeComUrls \cup YoutuBeUrls \cup OtherUrls

\* 'youtube.com/playlist' in url, 'youtu.be/playlist' in url
HasYoutubeComPlaylist(url) == url \in YoutubeComUrls
HasYoutuBePlaylist(url) == url \in YoutuBeUrls

Videos == {"https://youtube.com/watch?v=a"}

IntervalTokens ==
    {FormatInt(n) : n \in (-1..MaxInterval) \cup {10 + MaxInterval}}
        \cup {<<"+">> \o FormatInt(MaxInterval), <<"0">> \o FormatInt(1)}
        \cup {<<"a">>, <<"-">>}

FormatTokens == {"audio", "video", "AUDIO", "mp3"}

\* the sizes, in bytes, a downloaded file can have
FileSizes == {10 * BytesPerMb, 15 * BytesPerMb}

MaxFileSizes == {10, DefaultMaxFileSizeMb}

SeqsUpTo(S, n) == UNION {[1..k -> S] : k \in 0..n}

NoDup(s) == \A i, j \in 1..Len(s) : s[i] = s[j] => i = j

Contains(s, x) == \E i \in 1..Len(s) : s[i] = x

RemoveAt(s, i) == SubSeq(s, 1, i - 1) \o SubSeq(s, i + 1, Len(s))

----------------------------------------------------------------------------
(* ConfigStore *)

default_config ==
    [playlists |-> <<>>,
     interval_minutes |-> DefaultIntervalMinutes,
     download_format |-> "audio",
     max_file_size_mb |-> DefaultMaxFileSizeMb,
     enabled |-> FALSE]

\* The records load_config can return: the defaults, or a record read from a
\* file that earlier runs of the bot wrote.
ValidConfigs ==
    {c \in [playlists : {s \in SeqsUpTo(YoutubeComUrls \cup YoutuBeUrls, 2) : NoDup(s)},
            interval_minutes : 1..MaxInterval,
            download_format : {"audio", "video"},
            max_file_size_mb : MaxFileSizes,
            enabled : BOOLEAN] :
        c.enabled => c.playlists # <<>>}

\* json.dump of a settings dict: the numbers as decimals, the booleans as
\* true / false, the strings and the list as they are.
json_dump(cfg) ==
    [playlists |-> cfg.playlists,
     interval_minutes |-> FormatInt(cfg.interval_minutes),
     download_format |-> cfg.download_format,
     max_file_size_mb |-> FormatInt(cfg.max_file_size_mb),
     enabled |-> IF cfg.enabled THEN "true" ELSE "false"]

\* json.load of what json_dump wrote.
json_load(doc) ==
    [playlists |-> doc.playlists,
     interval_minutes |-> ParseInt(doc.interval_minutes).val,
     download_format |-> doc.download_format,
     max_file_size_mb |-> ParseInt(doc.max_file_size_mb).val,
     enabled |-> doc.enabled = "true"]

\* save_config(): json.dump of self.config into the file.
save_config(cfg) == json_dump(cfg)

----------------------------------------------------------------------------
(* Scheduler: the APScheduler job store as setup_scheduler and              *)
(* disable_command drive it                                                 *)

remove_all_jobs(sch) == [sch EXCEPT !.jobs = <<>>]

\* add_job(..., id='send_music_job', replace_existing=True): a job with the
\* same id is replaced in place, otherwise the job is appended.
add_job(sch, job) ==
    IF \E i \in 1..Len(sch.jobs) : sch.jobs[i].id = job.id
    THEN [sch EXCEPT !.jobs = [i \in 1..Len(sch.jobs) |->
                                  IF sch.jobs[i].id = job.id THEN job ELSE sch.jobs[i]]]
    ELSE [sch EXCEPT !.jobs = Append(sch.jobs, job)]

\* A faulty variant of setup_scheduler: the existing jobs are not removed and
\* the new job does not replace the one with its id.
setup_scheduler_piling(cfg, sch) ==
    IF cfg.enabled /\ cfg.playlists # <<>>
    THEN [sch EXCEPT !.jobs = Append(@, [id |-> JobId, minutes |-> cfg.interval_minutes]),
                     !.running = TRUE]
    ELSE sch

\* A faulty variant of setup_scheduler: the job is installed for an enabled
\* bot whether or not it has playlists.
setup_scheduler_enabled_only(cfg, sch) ==
    LET cleared == IF sch.running THEN remove_all_jobs(sch) ELSE sch
    IN  IF cfg.enabled
        THEN [add_job(cleared, [id |-> JobId, minutes |-> cfg.interval_minutes])
                 EXCEPT !.running = TRUE]
        ELSE cleared

setup_scheduler(cfg, sch) ==
    LET cleared == IF sch.running THEN remove_all_jobs(sch) ELSE sch
    IN  IF cfg.enabled /\ cfg.playlists # <<>>
        THEN [add_job(cleared, [id |-> JobId, minutes |-> cfg.interval_minutes])
                 EXCEPT !.running = TRUE]
        ELSE cleared

----------------------------------------------------------------------------
(* PlaylistResolver *)

\* What extract_info(playlist_url, download=False) can give: an exception, a
\* dict without 'entries', or entries that are None, lack 'webpage_url', or
\* carry one.
NoneEntry == "None"
NoUrlEntry == "no_webpage_url"

PlaylistInfos ==
    [kind : {"error", "no_entries"}, entries : {<<>>}]
        \cup [kind : {"entries"},
              entries : SeqsUpTo(Videos \cup {NoneEntry, NoUrlEntry}, MaxEntries)]

RECURSIVE KeepUrls(_)
KeepUrls(es) ==
    IF es = <<>> THEN <<>>
    ELSE IF Head(es) \in {NoneEntry, NoUrlEntry} THEN KeepUrls(Tail(es))
    ELSE <<Head(es)>> \o KeepUrls(Tail(es))

get_playlist_videos(info) ==
    IF info.kind = "entries" THEN KeepUrls(info.entries) ELSE <<>>

----------------------------------------------------------------------------
(* MediaFetcher *)

NoDir == [exists |-> FALSE, files |-> {}]

\* the size field of a log line that names no file
NoSize == 0 - 1

\* The files a download leaves are named 1..k in os.listdir order.
Names(sizes) == 1..Len(sizes)

\* A faulty variant of SizeAcceptable: a file of exactly the limit is refused.
SizeAcceptable_strict(size, max_mb) == size < max_mb * BytesPerMb

\* file_size <= self.config['max_file_size_mb'], file_size being
\* os.path.getsize / (1024 * 1024): the division by a power of two is exact.
SizeAcceptable(size, max_mb) == size <= max_mb * BytesPerMb

\* download_and_convert in the directory mkdtemp made: `raised` is an
\* exception out of extract_info or download, `sizes` the sizes of the files
\* the directory holds when the download ends.  The result is the directory
\* as it is left, the name of the returned file (0 for None), and the line
\* logged with the size it names ("" when the listing is empty and the
\* function falls off its end).
download_and_convert(raised, sizes, max_mb) ==
    IF raised
    THEN [dir |-> [exists |-> TRUE, files |-> Names(sizes)], file |-> 0,
          log |-> "download_error", file_size |-> NoSize]
    ELSE IF sizes = <<>>
    THEN [dir |-> [exists |-> TRUE, files |-> {}], file |-> 0,
          log |-> "", file_size |-> NoSize]
    ELSE IF SizeAcceptable(sizes[1], max_mb)
    THEN [dir |-> [exists |-> TRUE, files |-> Names(sizes)], file |-> 1,
          log |-> "downloaded", file_size |-> sizes[1]]
    ELSE [dir |-> [exists |-> TRUE, files |-> Names(sizes) \ {1}], file |-> 0,
          log |-> "too_large", file_size |-> sizes[1]]

----------------------------------------------------------------------------
(* State *)

Triggers == {"manual", "scheduled"}

IdleCycle ==
    [pc |-> "Idle", playlist_url |-> "", video_urls |-> <<>>, video_url |-> "",
     fetch_format |-> "", temp_dir |-> 0, file |-> 0, send_op |-> "",
     delivered |-> FALSE]

IdleHandler == [pc |-> "idle", url |-> ""]

\* The replies of one command, in order; the status fields are filled by
\* status_command alone.
Reply(kinds) == [kinds |-> kinds, interval |-> <<>>]

NoReply == Reply(<<>>)

\* The bodies of the try statements the pipeline runs in, by their first
\* and last line; each has an `except Exception` clause that logs and goes on.
TryBlocks_send_unguarded ==
    {[from |-> 116, to |-> 126], [from |-> 134, to |-> 165], [from |-> 224, to |-> 229]}

TryBlocks ==
    {[from |-> 116, to |-> 126], [from |-> 134, to |-> 165], [from |-> 174, to |-> 231],
     [from |-> 203, to |-> 216], [from |-> 224, to |-> 229]}

\* An exception raised with the call stack `stack` (the line each frame is
\* at, outermost first) leaves send_random_music when no frame is inside a
\* try body.
Escapes(stack) ==
    \A i \in 1..Len(stack) :
        \A b \in TryBlocks : ~(b.from <= stack[i] /\ stack[i] <= b.to)

\* A log line of send_random_music, with the invocation that wrote it.
LoggedSize(t, event, size) ==
    [trigger |-> t, event |-> event, file_size |-> size, raised |-> FALSE]

Logged(t, event) == LoggedSize(t, event, NoSize)

NoLog == Logged("", "")

\* The last line logged about an exception raised with the call stack `stack`.
Failure(t, event, stack) == [Logged(t, event) EXCEPT !.raised = Escapes(stack)]

\* A message the Telegram API accepted (lines 204-214).
Message(op, url, fetched_as) ==
    [op |-> op, chat_id |-> USER_ID, url |-> url, fetched_as |-> fetched_as]

NoMessage == [op |-> "", chat_id |-> 0, url |-> "", fetched_as |-> ""]

Init ==
    /\ phase = "constructed"
    /\ config \in ValidConfigs \cup {default_config}
    /\ persisted = json_dump(config)
    /\ scheduler = [running |-> FALSE, jobs |-> <<>>]
    /\ handler = IdleHandler
    /\ cyc = [t \in Triggers |-> IdleCycle]
    /\ fs = [d \in 1..MaxCycles |-> NoDir]
    /\ nextDir = 1
    /\ sent = NoMessage
    /\ reply = NoReply
    /\ log = NoLog

\* The part of the state no command handler writes.
pipeline == <<cyc, fs, nextDir>>

\* A command handler logs nothing about a cycle and sends no file.
Quiet == log' = NoLog /\ sent' = NoMessage

\* A cycle holds the event loop from its start to the send call, and from
\* the return of the send to its end.
Busy(t) == cyc[t].pc \in {"Selecting", "Resolving", "Fetching", "Delivering", "Cleaning"}

\* run(): the scheduler is set up, then polling starts (lines 528-534).
run ==
    /\ phase = "constructed"
    /\ phase' = "polling"
    /\ scheduler' = setup_scheduler(config, scheduler)
    /\ reply' = NoReply
    /\ Quiet
    /\ UNCHANGED <<config, persisted, handler, pipeline>>

\* A faulty variant of CanDispatch: updates are taken up while a cycle is
\* under way, as if its fetch gave up the loop.
CanDispatch_mid_cycle ==
    /\ phase = "polling"
    /\ handler.pc = "idle"

\* An update is taken up when polling runs, no handler is in flight and no
\* cycle holds the loop.
CanDispatch ==
    /\ phase = "polling"
    /\ handler.pc = "idle"
    /\ \A t \in Triggers : cyc[t].pc = "Idle"

----------------------------------------------------------------------------
(* Authorization *)

Callers == {USER_ID, USER_ID + 1}

check_user_permission(caller) == caller = USER_ID

\* The wrapper without the permission check.
authorized_command_unchecked(caller, handler_func) ==
    /\ CanDispatch
    /\ handler_func

\* The wrapper authorized_command puts in front of every handler.
authorized_command(caller, handler_func) ==
    /\ CanDispatch
    /\ IF check_user_permission(caller)
       THEN handler_func
       ELSE /\ reply' = Reply(<<"not_authorized">>)
            /\ Quiet
            /\ UNCHANGED <<phase, config, persisted, scheduler, handler, pipeline>>

----------------------------------------------------------------------------
(* Command handlers *)

ReplyOnly(kind) ==
    /\ reply' = Reply(<<kind>>)
    /\ Quiet
    /\ UNCHANGED <<phase, config, persisted, scheduler, handler, pipeline>>

status_command ==
    /\ reply' = [Reply(<<"status">>) EXCEPT !.interval = FormatInt(config.interval_minutes)]
    /\ Quiet
    /\ UNCHANGED <<phase, config, persisted, scheduler, handler, pipeline>>

enable_command ==
    IF config.playlists = <<>>
    THEN ReplyOnly("cannot_enable")
    ELSE LET cfg == [config EXCEPT !.enabled = TRUE]
         IN  /\ config' = cfg
             /\ persisted' = save_config(cfg)
             /\ scheduler' = setup_scheduler(cfg, scheduler)
             /\ reply' = Reply(<<"enabled">>)
             /\ Quiet /\ UNCHANGED <<phase, handler, pipeline>>

\* A faulty variant of disable_command: the scheduled job is left in place.
disable_command_keeps_jobs ==
    LET cfg == [config EXCEPT !.enabled = FALSE]
    IN  /\ config' = cfg
        /\ persisted' = save_config(cfg)
        /\ reply' = Reply(<<"disabled">>)
        /\ Quiet /\ UNCHANGED <<phase, scheduler, handler, pipeline>>

disable_command ==
    LET cfg == [config EXCEPT !.enabled = FALSE]
    IN  /\ config' = cfg
        /\ persisted' = save_config(cfg)
        /\ scheduler' = IF scheduler.running THEN remove_all_jobs(scheduler) ELSE scheduler
        /\ reply' = Reply(<<"disabled">>)
        /\ Quiet /\ UNCHANGED <<phase, handler, pipeline>>

\* A faulty variant of set_interval_command: the lower limit is off by one.
set_interval_command_accepts_zero(args) ==
    IF args = <<>> THEN ReplyOnly("interval_usage")
    ELSE LET interval == ParseInt(args[1])
             cfg == [config EXCEPT !.interval_minutes = interval.val]
         IN  IF ~interval.ok THEN ReplyOnly("invalid_minutes")
             ELSE IF interval.val < 0 THEN ReplyOnly("interval_too_small")
             ELSE /\ config' = cfg
                  /\ persisted' = save_config(cfg)
                  /\ scheduler' = IF cfg.enabled THEN setup_scheduler(cfg, scheduler)
                                  ELSE scheduler
                  /\ reply' = [Reply(<<"interval_set">>) EXCEPT
                                  !.interval = FormatInt(interval.val)]
                  /\ Quiet /\ UNCHANGED <<phase, handler, pipeline>>

\* A faulty variant of set_interval_command: the job is left at its old
\* period.
set_interval_command_no_reschedule(args) ==
    IF args = <<>> THEN ReplyOnly("interval_usage")
    ELSE LET interval == ParseInt(args[1])
             cfg == [config EXCEPT !.interval_minutes = interval.val]
         IN  IF ~interval.ok THEN ReplyOnly("invalid_minutes")
             ELSE IF interval.val < 1 THEN ReplyOnly("interval_too_small")
             ELSE /\ config' = cfg
                  /\ persisted' = save_config(cfg)
                  /\ reply' = [Reply(<<"interval_set">>) EXCEPT
                                  !.interval = FormatInt(interval.val)]
                  /\ Quiet /\ UNCHANGED <<phase, scheduler, handler, pipeline>>

set_interval_command(args) ==
    IF args = <<>> THEN ReplyOnly("interval_usage")
    ELSE LET interval == ParseInt(args[1])
             cfg == [config EXCEPT !.interval_minutes = interval.val]
         IN  IF ~interval.ok THEN ReplyOnly("invalid_minutes")
             ELSE IF interval.val < 1 THEN ReplyOnly("interval_too_small")
             ELSE /\ config' = cfg
                  /\ persisted' = save_config(cfg)
                  /\ scheduler' = IF cfg.enabled THEN setup_scheduler(cfg, scheduler)
                                  ELSE scheduler
                  /\ reply' = [Reply(<<"interval_set">>) EXCEPT
                                  !.interval = FormatInt(interval.val)]
                  /\ Quiet /\ UNCHANGED <<phase, handler, pipeline>>

\* A faulty variant of set_format_command: the new format is not saved.
set_format_command_no_save(args) ==
    IF args = <<>> THEN ReplyOnly("format_usage")
    ELSE LET format_choice == Lower(args[1])
             cfg == [config EXCEPT !.download_format = format_choice]
         IN  IF format_choice \notin {"audio", "video"} THEN ReplyOnly("invalid_format")
             ELSE /\ config' = cfg
                  /\ reply' = Reply(<<"format_set">>)
                  /\ Quiet /\ UNCHANGED <<phase, persisted, scheduler, handler, pipeline>>

set_format_command(args) ==
    IF args = <<>> THEN ReplyOnly("format_usage")
    ELSE LET format_choice == Lower(args[1])
             cfg == [config EXCEPT !.download_format = format_choice]
         IN  IF format_choice \notin {"audio", "video"} THEN ReplyOnly("invalid_format")
             ELSE /\ config' = cfg
                  /\ persisted' = save_config(cfg)
                  /\ reply' = Reply(<<"format_set">>)
                  /\ Quiet /\ UNCHANGED <<phase, scheduler, handler, pipeline>>

\* A faulty variant of add_playlist_command: no check for a URL already listed.
add_playlist_command_no_dup_check(args) ==
    IF args = <<>> THEN ReplyOnly("add_usage")
    ELSE LET playlist_url == args[1]
         IN  IF ~HasYoutubeComPlaylist(playlist_url) /\ ~HasYoutuBePlaylist(playlist_url)
             THEN ReplyOnly("invalid_url")
             ELSE /\ Len(config.playlists) < MaxPlaylists
                  /\ handler' = [pc |-> "testing", url |-> playlist_url]
                  /\ reply' = Reply(<<"testing">>)
                  /\ Quiet /\ UNCHANGED <<phase, config, persisted, scheduler, pipeline>>

\* add_playlist_command up to the reply at line 329, where it suspends.
add_playlist_command(args) ==
    IF args = <<>> THEN ReplyOnly("add_usage")
    ELSE LET playlist_url == args[1]
         IN  IF ~HasYoutubeComPlaylist(playlist_url) /\ ~HasYoutuBePlaylist(playlist_url)
             THEN ReplyOnly("invalid_url")
             ELSE IF Contains(config.playlists, playlist_url)
             THEN ReplyOnly("already_in_list")
             ELSE /\ Len(config.playlists) < MaxPlaylists
                  /\ handler' = [pc |-> "testing", url |-> playlist_url]
                  /\ reply' = Reply(<<"testing">>)
                  /\ Quiet /\ UNCHANGED <<phase, config, persisted, scheduler, pipeline>>

\* A faulty variant of add_playlist_resume: the playlist is appended whatever
\* the test found.
add_playlist_resume_unchecked(info) ==
    /\ handler.pc = "testing"
    /\ \A t \in Triggers : ~Busy(t)
    /\ LET cfg == [config EXCEPT !.playlists = Append(@, handler.url)]
       IN  /\ config' = cfg
           /\ persisted' = save_config(cfg)
           /\ reply' = Reply(<<"testing", "added">>)
    /\ handler' = IdleHandler
    /\ Quiet /\ UNCHANGED <<phase, scheduler, pipeline>>

\* add_playlist_command from line 331 to its end.
add_playlist_resume(info) ==
    /\ handler.pc = "testing"
    /\ \A t \in Triggers : ~Busy(t)
    /\ LET video_urls == get_playlist_videos(info)
           cfg == [config EXCEPT !.playlists = Append(@, handler.url)]
       IN  IF video_urls # <<>>
           THEN /\ config' = cfg
                /\ persisted' = save_config(cfg)
                /\ reply' = Reply(<<"testing", "added">>)
           ELSE /\ reply' = Reply(<<"testing", "could_not_access">>)
                /\ UNCHANGED <<config, persisted>>
    /\ handler' = IdleHandler
    /\ Quiet /\ UNCHANGED <<phase, scheduler, pipeline>>

\* remove_playlist without the lower bound: list.pop(-1) takes the last entry.
remove_playlist_command_no_lower_bound(args) ==
    IF args = <<>> THEN ReplyOnly("remove_usage")
    ELSE LET parsed == ParseInt(args[1])
             playlist_num == parsed.val - 1
             at == IF playlist_num < 0 THEN Len(config.playlists) + playlist_num + 1
                   ELSE playlist_num + 1
             cfg == [config EXCEPT !.playlists = RemoveAt(@, at)]
         IN  IF ~parsed.ok THEN ReplyOnly("invalid_number")
             ELSE IF at >= 1 /\ playlist_num < Len(config.playlists)
             THEN /\ config' = cfg
                  /\ persisted' = save_config(cfg)
                  /\ reply' = Reply(<<"removed">>)
                  /\ Quiet /\ UNCHANGED <<phase, scheduler, handler, pipeline>>
             ELSE ReplyOnly("invalid_playlist_number")

remove_playlist_command(args) ==
    IF args = <<>> THEN ReplyOnly("remove_usage")
    ELSE LET parsed == ParseInt(args[1])
             playlist_num == parsed.val - 1
             cfg == [config EXCEPT !.playlists = RemoveAt(@, playlist_num + 1)]
         IN  IF ~parsed.ok THEN ReplyOnly("invalid_number")
             ELSE IF 0 <= playlist_num /\ playlist_num < Len(config.playlists)
             THEN /\ config' = cfg
                  /\ persisted' = save_config(cfg)
                  /\ reply' = Reply(<<"removed">>)
                  /\ Quiet /\ UNCHANGED <<phase, scheduler, handler, pipeline>>
             ELSE ReplyOnly("invalid_playlist_number")

\* A fresh send_random_music invocation.
StartCycle(t) == cyc' = [cyc EXCEPT ![t] = [IdleCycle EXCEPT !.pc = "Selecting"]]

send_now_command ==
    IF config.playlists = <<>>
    THEN ReplyOnly("no_playlists")
    ELSE /\ nextDir <= MaxCycles
         /\ reply' = Reply(<<"selecting">>)
         /\ StartCycle("manual")
         /\ Quiet
         /\ UNCHANGED <<phase, config, persisted, scheduler, handler, fs, nextDir>>

----------------------------------------------------------------------------
(* Scheduler firing *)

\* The timer engine runs the job: send_random_music(None).
ScheduledFire ==
    /\ phase = "polling"
    /\ scheduler.running
    /\ scheduler.jobs # <<>>
    /\ cyc["scheduled"].pc = "Idle"
    /\ ~Busy("manual")
    /\ nextDir <= MaxCycles
    /\ StartCycle("scheduled")
    /\ Quiet
    /\ reply' = NoReply
    /\ UNCHANGED <<phase, config, persisted, scheduler, handler, fs, nextDir>>

----------------------------------------------------------------------------
(* DeliveryPipeline: send_random_music, one action per stretch of code     *)

\* The context argument: the handler's context for send_now, None for the
\* scheduled job (args=[None], line 458).
ContextOf(t) == IF t = "manual" THEN "context" ELSE "None"

\* The invocation returns.
Finish == IdleCycle

\* lines 174-184
Selecting(t) ==
    /\ cyc[t].pc = "Selecting"
    /\ IF config.playlists = <<>>
       THEN cyc' = [cyc EXCEPT ![t] = Finish] /\ log' = Logged(t, "no_playlists")
       ELSE IF ~config.enabled
       THEN cyc' = [cyc EXCEPT ![t] = Finish] /\ log' = Logged(t, "disabled")
       ELSE /\ \E i \in 1..Len(config.playlists) :
                  cyc' = [cyc EXCEPT ![t].pc = "Resolving",
                                     ![t].playlist_url = config.playlists[i]]
            /\ log' = Logged(t, "selected_playlist")
    /\ reply' = NoReply
    /\ sent' = NoMessage
    /\ UNCHANGED <<phase, config, persisted, scheduler, handler, fs, nextDir>>

\* lines 187-191
Resolving(t) ==
    /\ cyc[t].pc = "Resolving"
    /\ \E info \in PlaylistInfos :
          LET video_urls == get_playlist_videos(info)
          IN  IF video_urls = <<>>
              THEN /\ cyc' = [cyc EXCEPT ![t] = Finish]
                   /\ log' = IF info.kind = "error"
                             THEN Failure(t, "no_videos", <<187, 117>>)
                             ELSE Logged(t, "no_videos")
              ELSE /\ cyc' = [cyc EXCEPT ![t].pc = "Fetching",
                                         ![t].video_urls = video_urls]
                   /\ log' = NoLog
    /\ reply' = NoReply
    /\ sent' = NoMessage
    /\ UNCHANGED <<phase, config, persisted, scheduler, handler, fs, nextDir>>

\* A faulty variant of Fetching: after a fetch without a result the cycle
\* stays where it is and fetches again.
Fetching_retries(t) ==
    /\ cyc[t].pc = "Fetching"
    /\ \E i \in 1..Len(cyc[t].video_urls), raised \in BOOLEAN,
          sizes \in SeqsUpTo(FileSizes, MaxFiles) :
          LET got == download_and_convert(raised, sizes, config.max_file_size_mb)
              c == [cyc[t] EXCEPT !.video_url = cyc[t].video_urls[i],
                                  !.fetch_format = config.download_format,
                                  !.temp_dir = nextDir,
                                  !.file = got.file]
          IN  /\ fs' = [fs EXCEPT ![nextDir] = got.dir]
              /\ cyc' = [cyc EXCEPT ![t] =
                            IF got.file = 0 THEN cyc[t]
                            ELSE [c EXCEPT !.pc = "Delivering"]]
              /\ log' = IF raised THEN Failure(t, got.log, <<198, 151>>)
                        ELSE LoggedSize(t, got.log, got.file_size)
    /\ nextDir' = nextDir + 1
    /\ reply' = NoReply
    /\ sent' = NoMessage
    /\ UNCHANGED <<phase, config, persisted, scheduler, handler>>

\* lines 194-200
Fetching(t) ==
    /\ cyc[t].pc = "Fetching"
    /\ \E i \in 1..Len(cyc[t].video_urls), raised \in BOOLEAN,
          sizes \in SeqsUpTo(FileSizes, MaxFiles) :
          LET got == download_and_convert(raised, sizes, config.max_file_size_mb)
              c == [cyc[t] EXCEPT !.video_url = cyc[t].video_urls[i],
                                  !.fetch_format = config.download_format,
                                  !.temp_dir = nextDir,
                                  !.file = got.file]
          IN  /\ fs' = [fs EXCEPT ![nextDir] = got.dir]
              /\ cyc' = [cyc EXCEPT ![t] =
                            IF got.file = 0 THEN Finish
                            ELSE [c EXCEPT !.pc = "Delivering"]]
              /\ log' = IF raised THEN Failure(t, got.log, <<198, 151>>)
                        ELSE LoggedSize(t, got.log, got.file_size)
    /\ nextDir' = nextDir + 1
    /\ reply' = NoReply
    /\ sent' = NoMessage
    /\ UNCHANGED <<phase, config, persisted, scheduler, handler>>

\* lines 202-214, up to the call: context.bot raises on None, otherwise the
\* send is under way and the invocation is suspended.
Delivering(t) ==
    /\ cyc[t].pc = "Delivering"
    /\ LET op == IF config.download_format = "audio" THEN "send_audio" ELSE "send_video"
       IN  IF ContextOf(t) = "None"
           THEN cyc' = [cyc EXCEPT ![t].pc = "Cleaning", ![t].send_op = op]
           ELSE cyc' = [cyc EXCEPT ![t].pc = "Sending", ![t].send_op = op]
    /\ log' = IF ContextOf(t) = "None" THEN Failure(t, "send_error", <<204>>) ELSE NoLog
    /\ reply' = NoReply
    /\ sent' = NoMessage
    /\ UNCHANGED <<phase, config, persisted, scheduler, handler, fs, nextDir>>

\* The send with the cleanup after it instead of in a finally clause: an
\* exception out of the send ends the cycle past the cleanup.
SendReturns_cleanup_on_success_only(t) ==
    /\ cyc[t].pc = "Sending"
    /\ \A u \in Triggers : ~Busy(u)
    /\ \E ok \in BOOLEAN :
          IF ok
          THEN /\ sent' = Message(cyc[t].send_op, cyc[t].video_url,
                               cyc[t].fetch_format)
               /\ cyc' = [cyc EXCEPT ![t].pc = "Cleaning", ![t].delivered = TRUE]
               /\ log' = Logged(t, "sent")
          ELSE /\ sent' = NoMessage
               /\ cyc' = [cyc EXCEPT ![t] = Finish]
               /\ log' = Failure(t, "send_error", <<204>>)
    /\ reply' = NoReply
    /\ UNCHANGED <<phase, config, persisted, scheduler, handler, fs, nextDir>>

\* lines 204-219: the send returns or raises.
SendReturns(t) ==
    /\ cyc[t].pc = "Sending"
    /\ \A u \in Triggers : ~Busy(u)
    /\ \E ok \in BOOLEAN :
          IF ok
          THEN /\ sent' = Message(cyc[t].send_op, cyc[t].video_url,
                               cyc[t].fetch_format)
               /\ cyc' = [cyc EXCEPT ![t].pc = "Cleaning", ![t].delivered = TRUE]
               /\ log' = Logged(t, "sent")
          ELSE /\ sent' = NoMessage
               /\ cyc' = [cyc EXCEPT ![t].pc = "Cleaning"]
               /\ log' = Failure(t, "send_error", <<204>>)
    /\ reply' = NoReply
    /\ UNCHANGED <<phase, config, persisted, scheduler, handler, fs, nextDir>>

\* lines 221-231: os.remove deletes the file or raises.
Cleaning(t) ==
    /\ cyc[t].pc = "Cleaning"
    /\ \E removed \in BOOLEAN :
          LET d == cyc[t].temp_dir
              left == fs[d].files \ {cyc[t].file}
          IN  IF removed
              THEN /\ fs' = [fs EXCEPT ![d] = IF left = {} THEN NoDir
                                              ELSE [exists |-> TRUE, files |-> left]]
                   /\ log' = Logged(t, "cleaned")
              ELSE /\ fs' = fs
                   /\ log' = Failure(t, "cleanup_error", <<224>>)
    /\ cyc' = [cyc EXCEPT ![t] = Finish]
    /\ reply' = NoReply
    /\ sent' = NoMessage
    /\ UNCHANGED <<phase, config, persisted, scheduler, handler, nextDir>>

----------------------------------------------------------------------------
(* Specification *)

IndexTokens == {FormatInt(n) : n \in -1..MaxPlaylists} \cup {<<"a">>}

ArgsOf(tokens) == {<<>>} \cup {<<tok>> : tok \in tokens}

Next ==
    \/ run
    \/ \E caller \in Callers : authorized_command(caller, status_command)
    \/ \E caller \in Callers : authorized_command(caller, enable_command)
    \/ \E caller \in Callers : authorized_command(caller, disable_command)
    \/ \E caller \in Callers :
          authorized_command(caller,
              \E args \in ArgsOf(IntervalTokens) : set_interval_command(args))
    \/ \E caller \in Callers :
          authorized_command(caller,
              \E args \in ArgsOf(FormatTokens) : set_format_command(args))
    \/ \E caller \in Callers :
          authorized_command(caller,
              \E args \in ArgsOf(Urls) : add_playlist_command(args))
    \/ \E info \in PlaylistInfos : add_playlist_resume(info)
    \/ \E caller \in Callers :
          authorized_command(caller,
              \E args \in ArgsOf(IndexTokens) : remove_playlist_command(args))
    \/ \E caller \in Callers : authorized_command(caller, send_now_command)
    \/ ScheduledFire
    \/ \E t \in Triggers : Selecting(t)
    \/ \E t \in Triggers : Resolving(t)
    \/ \E t \in Triggers : Fetching(t)
    \/ \E t \in Triggers : Delivering(t)
    \/ \E t \in Triggers : SendReturns(t)
    \/ \E t \in Triggers : Cleaning(t)

Spec == Init /\ [][Next]_vars

\* A cycle that can take its next step takes it: the event loop runs a ready
\* coroutine on, and a send that is under way comes back (with a result or
\* an exception) and is resumed however often scheduled cycles cut in.
Fairness ==
    \A t \in Triggers :
        /\ WF_vars(Selecting(t))
        /\ WF_vars(Resolving(t))
        /\ WF_vars(Fetching(t))
        /\ WF_vars(Delivering(t))
        /\ SF_vars(SendReturns(t))
        /\ WF_vars(Cleaning(t))

SpecFair == Spec /\ Fairness

----------------------------------------------------------------------------
(* Properties *)

\* The directory the fetch of a step makes.
FetchedDir == nextDir

\* Cycle t takes a step.
Steps(t) == cyc'[t] # cyc[t]

\* C1: a send_now cycle ignores `enabled`: with playlists configured and the
\* bot disabled, the manual cycle goes on from Selecting to Resolving.
C1_SendNowIgnoresEnabled ==
    [][(/\ cyc["manual"].pc = "Selecting"
        /\ config.playlists # <<>>
        /\ ~config.enabled
        /\ Steps("manual")) => cyc'["manual"].pc = "Resolving"]_vars

\* C2: enabled implies a non-empty playlist list, in every reachable state.
C2_EnabledImpliesPlaylists == config.enabled => config.playlists # <<>>

\* C3: enable with no playlists leaves enabled false, installs no job and
\* replies with an error.
C3_EnableWithoutPlaylists ==
    [][(config.playlists = <<>> /\ authorized_command(USER_ID, enable_command)) =>
          /\ config'.enabled = FALSE
          /\ scheduler' = scheduler
          /\ reply'.kinds = <<"cannot_enable">>]_vars

\* C4: no scratch directory outlives the cycle that made it: a directory that
\* no cycle in flight owns holds no downloaded file and does not stand empty.
C4_DownloadResultNeverOutlivesCycle ==
    \A d \in 1..MaxCycles :
        (\A t \in Triggers : cyc[t].temp_dir # d) =>
            ~(fs[d].exists /\ fs[d].files = {}) /\ 1 \notin fs[d].files

\* C5: a fetched file larger than max_file_size_mb is deleted, the fetch
\* returns None and the cycle ends without a send; a file of at most the limit
\* is returned and the cycle goes on to deliver it.
C5_SizeCeiling ==
    [][\A t \in Triggers :
          (cyc[t].pc = "Fetching" /\ Steps(t) /\ log'.file_size # NoSize) =>
              IF log'.file_size > config.max_file_size_mb * BytesPerMb
              THEN /\ 1 \notin fs'[FetchedDir].files
                   /\ cyc'[t].pc = "Idle"
                   /\ sent' = NoMessage
              ELSE /\ 1 \in fs'[FetchedDir].files
                   /\ cyc'[t].pc = "Delivering"
                   /\ cyc'[t].file = 1]_vars

\* A 15MB file met a limit of 10MB and the cycle ended there.
C5_Witness_TooLarge ==
    /\ log.event = "too_large"
    /\ log.file_size = 15 * BytesPerMb
    /\ config.max_file_size_mb = 10
    /\ \A t \in Triggers : cyc[t].pc = "Idle"

\* C6: the scheduler holds at most one job in every reachable state.
C6_AtMostOneJob == Len(scheduler.jobs) <= 1

\* set_interval reconfigured the scheduler of an enabled bot: one job, at the
\* new interval.
C6_Witness_Reconfigured ==
    /\ reply.kinds = <<"interval_set">>
    /\ config.enabled
    /\ scheduler.running
    /\ scheduler.jobs = <<[id |-> JobId, minutes |-> 10 + MaxInterval]>>

\* The bot is disabled and nothing is scheduled.
Dormant == ~config.enabled /\ scheduler.jobs = <<>>

\* C7: disable leaves the bot dormant, it stays dormant until an enable
\* command, and no scheduled cycle starts while it is dormant.
C7_DisableStopsScheduledCycles ==
    [][/\ authorized_command(USER_ID, disable_command) => Dormant'
       /\ (Dormant /\ ~authorized_command(USER_ID, enable_command)) => Dormant'
       /\ Dormant => ~ScheduledFire]_vars

\* disable has just cleared the job of a scheduler that runs on, idle.
C7_Witness_Disabled ==
    /\ reply.kinds = <<"disabled">>
    /\ scheduler.running
    /\ Dormant

\* The intervals set_interval is asked for, each with its argument text.
AcceptedIntervals == {[n |-> n, args |-> <<FormatInt(n)>>] :
                         n \in (1..MaxInterval) \cup {10 + MaxInterval}}

\* The argument lists that denote no integer >= 1, the empty one included.
RejectedIntervalArgs == ArgsOf({FormatInt(0), FormatInt(0 - 1), <<"a">>, <<"-">>})

\* C8: set_interval n (n >= 1) stores n, set_interval with any other argument
\* and every other step leave the interval alone, status reports the stored
\* interval, and the interval is at least 1 throughout.
C8_SetIntervalThenStatus ==
    /\ config.interval_minutes >= 1
    /\ [][/\ \A a \in AcceptedIntervals :
                \/ config'.interval_minutes = a.n
                \/ ~authorized_command(USER_ID, set_interval_command(a.args))
          /\ \/ config' = config /\ scheduler' = scheduler
             \/ \A args \in RejectedIntervalArgs :
                   ~authorized_command(USER_ID, set_interval_command(args))
          /\ \/ config'.interval_minutes = config.interval_minutes
             \/ reply'.kinds = <<"interval_set">>
          /\ \/ reply'.interval = FormatInt(config.interval_minutes)
             \/ ~authorized_command(USER_ID, status_command)
          /\ config'.interval_minutes >= 1]_vars

\* status reports an interval that only set_interval can have stored.
C8_Witness_StatusAfterSetInterval ==
    /\ reply.kinds = <<"status">>
    /\ reply.interval = FormatInt(10 + MaxInterval)
    /\ config.interval_minutes = 10 + MaxInterval

\* The playlist resolves to no item: extraction failed, there are no
\* entries, or no entry carries a URL.
ZeroItems(info) ==
    info.kind # "entries" \/ \A i \in 1..Len(info.entries) : info.entries[i] \notin Videos

\* C9: add_playlist with a URL that resolves to zero items, or that fails the
\* shape check, changes neither the settings, the file nor the scheduler.
C9_RejectedAddPlaylistChangesNothing ==
    [][/\ \/ UNCHANGED <<config, persisted, scheduler>>
          \/ \A info \in PlaylistInfos :
                ZeroItems(info) => ~add_playlist_resume(info)
       /\ \/ UNCHANGED <<config, persisted, scheduler, handler>>
          \/ \A url \in OtherUrls :
                ~authorized_command(USER_ID, add_playlist_command(<<url>>))]_vars

\* The test of a well-formed URL found nothing, with a playlist and a job in
\* place.
C9_Witness_CouldNotAccess ==
    /\ reply.kinds = <<"testing", "could_not_access">>
    /\ config.playlists # <<>>
    /\ scheduler.jobs # <<>>

\* C10: no URL occurs twice in playlists.
C10_NoDuplicatePlaylists == NoDup(config.playlists)

\* add_playlist of a URL the list already holds is turned away: the list
\* still holds every URL once.
C10_Witness_SecondAddRejected ==
    /\ reply.kinds = <<"already_in_list">>
    /\ Len(config.playlists) = 2
    /\ NoDup(config.playlists)

\* The playlists sequence without its k-th entry, the others in their order.
WithoutEntry(before, after, k) ==
    /\ Len(after) = Len(before) - 1
    /\ \A i \in 1..Len(after) : after[i] = IF i < k THEN before[i] ELSE before[i + 1]

\* The indices remove_playlist is asked for, each with its argument text.
IndexArgs == {[k |-> k, args |-> <<FormatInt(k)>>] : k \in -1..MaxPlaylists}

AnyHandler ==
    \/ status_command
    \/ enable_command
    \/ disable_command
    \/ \E args \in ArgsOf(IntervalTokens) : set_interval_command(args)
    \/ \E args \in ArgsOf(FormatTokens) : set_format_command(args)
    \/ \E args \in ArgsOf(Urls) : add_playlist_command(args)
    \/ \E args \in ArgsOf(IndexTokens) : remove_playlist_command(args)
    \/ send_now_command

\* C12: a command of a caller other than the recipient changes neither the
\* settings in memory, the settings file, the job set nor the cycles, starts
\* no handler body, and is answered with the rejection alone.
C12_UnauthorizedChangesNothing ==
    [][\A caller \in Callers \ {USER_ID} :
          authorized_command(caller, AnyHandler) =>
              /\ UNCHANGED <<config, persisted, scheduler, cyc, handler, fs, nextDir, phase>>
              /\ sent' = NoMessage
              /\ reply'.kinds = <<"not_authorized">>]_vars

\* A stranger was turned away from a disabled bot that has a playlist, where
\* enable and send_now would have acted.
C12_Witness_Rejected ==
    /\ reply.kinds = <<"not_authorized">>
    /\ config.playlists # <<>>
    /\ ~config.enabled
    /\ scheduler.running

\* C13: whatever fails in resolving, fetching, delivering or cleaning, no
\* step raises out of send_random_music, and every cycle that was started
\* comes to its end.
C13_NoFaultPastPipeline ==
    /\ [](~log.raised)
    /\ \A t \in Triggers : (cyc[t].pc # "Idle") ~> (cyc[t].pc = "Idle")

\* A scheduled cycle has returned after its send failed for want of a bot
\* handle and the removal of the file failed as well: the file is still there.
C13_Witness_SendAndCleanupFailed ==
    /\ log = Failure("scheduled", "cleanup_error", <<224>>)
    /\ cyc["scheduled"].pc = "Idle"
    /\ \E d \in 1..MaxCycles : 1 \in fs[d].files

\* C14: once a fetch has returned a file the cycle comes to Cleaning, whether
\* the send went through or raised; a cleanup whose os.remove does not raise
\* leaves the file gone and the scratch directory removed if nothing else is
\* in it, so the directory of a cycle that fetched one file and sent it does
\* not exist afterwards.
C14_CleaningAlwaysRuns ==
    /\ \A t \in Triggers : (cyc[t].file # 0) ~> (cyc[t].pc = "Cleaning")
    /\ [][\A t \in Triggers :
             /\ (cyc[t].file # 0 /\ cyc[t].pc # "Cleaning" /\ Steps(t)) =>
                   cyc'[t].pc \in {"Sending", "Cleaning"}
             /\ (log'.event = "cleaned" /\ Cleaning(t)) =>
                   LET d == cyc[t].temp_dir
                   IN  /\ cyc[t].file \notin fs'[d].files
                       /\ fs'[d].files = fs[d].files \ {cyc[t].file}
                       /\ fs'[d].exists = (fs'[d].files # {})]_vars

\* The manual cycle has cleaned up after itself: the one directory made so
\* far is gone again.
C14_Witness_DirectoryRemoved ==
    /\ log = Logged("manual", "cleaned")
    /\ nextDir = 2
    /\ fs[1] = NoDir

\* C15: a cycle with a fetched file in hand hands it to the Telegram API for
\* the recipient, with the operation of the current format, whether the
\* scheduled job or send_now started it.
C15_ScheduledCycleDelivers ==
    [][\A t \in Triggers :
          (cyc[t].pc = "Delivering" /\ Steps(t)) =>
              /\ cyc'[t].pc = "Sending"
              /\ cyc'[t].send_op =
                    IF config.download_format = "audio" THEN "send_audio" ELSE "send_video"
              /\ ~log'.raised /\ log'.event # "send_error"]_vars

\* The steps in which setup_scheduler is called: run (line 529), a granted
\* enable (382) and a granted set_interval of an enabled bot (413-414).
CallsSetupScheduler ==
    \/ run
    \/ config.playlists # <<>> /\ authorized_command(USER_ID, enable_command)
    \/ /\ config.enabled
       /\ \E a \in AcceptedIntervals :
             authorized_command(USER_ID, set_interval_command(a.args))

\* C17: when setup_scheduler has returned, a job exists exactly if enabled is
\* true and playlists is non-empty; it is then the only job, its period is
\* interval_minutes and the scheduler is running.
C17_SetupSchedulerPostcondition ==
    [][CallsSetupScheduler =>
          /\ (scheduler'.jobs # <<>>) <=> (config'.enabled /\ config'.playlists # <<>>)
          /\ scheduler'.jobs # <<>> =>
                /\ scheduler'.jobs = <<[id |-> JobId, minutes |-> config'.interval_minutes]>>
                /\ scheduler'.running]_vars

\* set_interval of an enabled bot has replaced the job by one of the new
\* period.
C17_Witness_JobReinstalled ==
    /\ reply.kinds = <<"interval_set">>
    /\ config.enabled
    /\ config.interval_minutes = 10 + MaxInterval
    /\ scheduler.jobs = <<[id |-> JobId, minutes |-> 10 + MaxInterval]>>

\* The state of the cycle in the terms of its state diagram: the wait for the
\* send call to come back is part of Delivering.
StageOf(pc) == IF pc = "Sending" THEN "Delivering" ELSE pc

\* The moves of the state diagram, the aborts included.
ForwardMoves ==
    {<<"Idle", "Selecting">>, <<"Selecting", "Resolving">>, <<"Selecting", "Idle">>,
     <<"Resolving", "Fetching">>, <<"Resolving", "Idle">>,
     <<"Fetching", "Delivering">>, <<"Fetching", "Idle">>,
     <<"Delivering", "Delivering">>, <<"Delivering", "Cleaning">>,
     <<"Cleaning", "Idle">>}

\* C18: a cycle only moves forward along Idle, Selecting, Resolving, Fetching,
\* Delivering, Cleaning, Idle, with aborts to Idle from Selecting, Resolving
\* and Fetching alone; a fetch is not repeated, and a message goes out only
\* from a cycle in Delivering that holds a fetched file, which then moves on
\* to Cleaning.
C18_CycleMovesForwardOnly ==
    [][/\ \A t \in Triggers :
             /\ Steps(t) => <<StageOf(cyc[t].pc), StageOf(cyc'[t].pc)>> \in ForwardMoves
             /\ (cyc[t].pc = "Fetching" /\ nextDir' # nextDir) =>
                   cyc'[t].pc \in {"Delivering", "Idle"}
             /\ (cyc[t].pc = "Resolving" /\ Steps(t)) => cyc'[t].pc # "Resolving"
       /\ sent' # NoMessage =>
             \E t \in Triggers :
                /\ cyc[t].pc = "Sending"
                /\ cyc[t].file # 0
                /\ cyc[t].file \in fs[cyc[t].temp_dir].files
                /\ cyc'[t].pc = "Cleaning"
                /\ sent'.url = cyc[t].video_url]_vars

\* A cycle has come all the way to a delivered message and is about to clean
\* up.
C18_Witness_SentThenCleaning ==
    /\ sent # NoMessage
    /\ cyc["manual"].pc = "Cleaning"
    /\ cyc["manual"].delivered

\* The replies that end a command which changed the settings.
MutatingReplies ==
    {<<"enabled">>, <<"disabled">>, <<"testing", "added">>, <<"removed">>,
     <<"interval_set">>, <<"format_set">>}

\* C19: after enable, disable and every granted add_playlist,
\* remove_playlist, set_interval and set_format the settings file reads back
\* as the settings in memory; every other step, the rejected commands among
\* them, leaves the file and the settings as they are.
C19_WriteThroughPersistence ==
    [][IF reply'.kinds \in MutatingReplies
       THEN json_load(persisted') = config'
       ELSE persisted' = persisted /\ config' = config]_vars

\* set_format video has been written through to the file.
C19_Witness_FormatSaved ==
    /\ reply.kinds = <<"format_set">>
    /\ config.download_format = "video"
    /\ persisted.download_format = "video"
    /\ json_load(persisted) = config

\* C20: a job exists only while enabled is true, and the period of every job
\* is interval_minutes.
C20_JobOnlyWhileEnabledAtInterval ==
    /\ scheduler.jobs # <<>> => config.enabled
    /\ \A i \in 1..Len(scheduler.jobs) :
          scheduler.jobs[i].minutes = config.interval_minutes

\* set_interval of a disabled bot, whose scheduler is still running, has
\* installed no job.
C20_Witness_IntervalSetWhileDisabled ==
    /\ reply.kinds = <<"interval_set">>
    /\ ~config.enabled
    /\ config.playlists # <<>>
    /\ scheduler.running
    /\ scheduler.jobs = <<>>

\* C21: after startup, with no command handler in flight, an enabled bot
\* with playlists has a scheduled job, whatever commands came before.
C21_EnabledWithPlaylistsHasJob ==
    (/\ phase = "polling"
     /\ handler.pc = "idle"
     /\ config.enabled
     /\ config.playlists # <<>>) => scheduler.jobs # <<>>

\* The send operation for a file of a format (lines 203-214).
SendOpOf(format) == IF format = "audio" THEN "send_audio" ELSE "send_video"

\* C22: within a cycle the send operation matches the format the file was
\* fetched in: a file fetched as audio goes out with send_audio, a file
\* fetched as video with send_video, whatever set_format commands are taken
\* up around the cycle.
C22_SendMatchesFetchFormat ==
    /\ sent # NoMessage => sent.op = SendOpOf(sent.fetched_as)
    /\ \A t \in Triggers :
          cyc[t].send_op # "" => cyc[t].send_op = SendOpOf(cyc[t].fetch_format)

\* A file fetched as video has gone out with send_video, and the cycle is
\* about to clean up.
C22_Witness_VideoSentAsVideo ==
    /\ sent.op = "send_video"
    /\ sent.fetched_as = "video"
    /\ cyc["manual"].pc = "Cleaning"
    /\ cyc["manual"].fetch_format = "video"

====
